---- MODULE Spec2Model ----
(***************************************************************************)
(* mksysimage: the image-construction pipeline of main(), its deferred     *)
(* teardown calls and the panic/recover based exit.                        *)
(*                                                                         *)
(* Two variants of the program are in the repository:                      *)
(*   "format"  mksysimage/main.go (src/unnamed/part_000): temporary file,  *)
(*             output formats, root:source pairs, initrd, print-fs;        *)
(*   "plain"   main.go: writes the output file directly, raw only.         *)
(* Line numbers in comments are those of src/unnamed/part_000 unless       *)
(* main.go is named.                                                       *)
(*                                                                         *)
(* A Go defer pushes a call on the goroutine's stack of deferred calls;    *)
(* the calls run last-in-first-out when main returns or panics.  A panic   *)
(* raised by a deferred call does not stop the unwind: the remaining       *)
(* deferred calls still run and recover() yields the latest panic value.   *)
(***************************************************************************)
EXTENDS Integers, Sequences, FiniteSets, TLC

VARIABLES
    variant,      \* which main() runs: "format" or "plain"
    format,       \* *format (-format flag)
    vboxUuid,     \* *vboxUuid (-vbox-uuid flag), "" when not supplied
    initrd,       \* *initrd (-kernel-initrd flag), "" when not supplied
    printFs,      \* *printFs
    printLog,     \* *printLog
    sources,      \* flag.Args()[2:], one descriptor per source argument
    missing,      \* the program absent from the host's search path, or "none"
    preexisting,  \* a file exists at <output> when the program starts
    pc,           \* position of main()
    srcIdx,       \* index of the next source to populate
    defers,       \* stack of deferred calls, last registered at the end
    registered,   \* every call deferred so far, in registration order
    panicVal,     \* value of the panic in flight, "none" when not panicking
    firstErr,     \* argument of the first Exit call of the run, else "none"
    exeLog,       \* exe: headers written by LoggingExec.Cmd, in order
    ran,          \* every operation executed on the host, with its outcome
    tmpExists,    \* a file exists at <output>.tmp
    finalExists,  \* a file exists at <output>
    attached,     \* the loop device is bound to the backing file
    mapped,       \* the partition mapping exists
    mountDir,     \* the temporary mountpoint directory exists
    mounted,      \* the partition is mounted on the mountpoint
    cfg,          \* lines of boot/syslinux.cfg in the image, <<>> before it is written
    flushes,      \* number of PrintLog calls
    stderr,       \* what the recover call of main has written to os.Stderr
    exitCode      \* -1 while running, else the process's exit status

vars == <<variant, format, vboxUuid, initrd, printFs, printLog, sources,
          missing, preexisting, pc, srcIdx, defers, registered, panicVal,
          firstErr, exeLog, ran,
          tmpExists, finalExists, attached, mapped, mountDir, mounted, cfg,
          flushes, stderr, exitCode>>

inputs == <<variant, format, vboxUuid, initrd, printFs, printLog, sources,
            missing, preexisting>>

host == <<tmpExists, finalExists, attached, mapped, mountDir, mounted, cfg>>

----------------------------------------------------------------------------
(* Bounds of the model *)

\* longest list of source arguments
MaxSources == 1

----------------------------------------------------------------------------
(* Input domains *)

Formats == {"raw", "vdi", "vmdk", "vhd", "qcow2"}

\* kinds of source argument:
\*   dir      root:source, root absolute, source is a directory
\*   file     root:source, root absolute, source is a regular file
\*   nocolon  no ':' separator
\*   relroot  root:source with a root that is not absolute
\*   nostat   root:source, root absolute, source path does not exist
SourceKinds == {"dir", "file", "nocolon", "relroot", "nostat"}

\* programs whose absence from the host is modelled
Missable == {"kpartx", "vboxmanage", "cp"}

RECURSIVE SeqsUpTo(_, _)
SeqsUpTo(S, n) ==
    IF n = 0 THEN {<<>>}
    ELSE LET shorter == SeqsUpTo(S, n - 1)
         IN  shorter \cup
             {Append(s, x) : s \in {t \in shorter : Len(t) = n - 1}, x \in S}

----------------------------------------------------------------------------
(* Names and paths *)

outfinal == "out.img"
outfile == IF variant = "format" THEN outfinal \o ".tmp" ELSE outfinal
device == "/dev/loop0"
mountpoint == "/tmp/mksysimage0"
kernel == "build/vmlinuz"
kernelArgs == "root=/dev/sda1 ro"

\* path.Base on the paths of the model
Base(p) ==
    CASE p = "/dev/loop0" -> "loop0"
      [] p = "build/vmlinuz" -> "vmlinuz"
      [] p = "build/initrd.img" -> "initrd.img"
      [] OTHER -> p

\* path.Join(mountpoint, "boot")
extlinux == mountpoint \o "/boot"

partition == "/dev/mapper/" \o Base(device) \o "p1"

\* faulty variant: the format name passed on as given
ToUpperId(s) == s

\* strings.ToUpper on the format names
ToUpper(s) ==
    CASE s = "raw" -> "RAW"
      [] s = "vdi" -> "VDI"
      [] s = "vmdk" -> "VMDK"
      [] s = "vhd" -> "VHD"
      [] OTHER -> s

Converted == {"vdi", "vmdk", "vhd"}

\* the programs handed to CheckPrograms
programs ==
    {"dd", "kpartx", "losetup", "mkfs.ext3", "mount", "sfdisk", "tar",
     "umount", "rsync", "extlinux"}
    \cup (IF variant = "format" /\ format \in Converted
          THEN {"vboxmanage"} ELSE {})

----------------------------------------------------------------------------
(* Go runtime: defer, panic *)

\* faulty variant: deferred calls kept in a queue, first registered runs first
DeferFifo(stack, call) == <<call>> \o stack

\* defer statement: the call goes on top of the stack of deferred calls
Defer(stack, call) == Append(stack, call)

\* the deferred call that runs next: the last one registered
Top(stack) == stack[Len(stack)]

Pop(stack) == SubSeq(stack, 1, Len(stack) - 1)

\* "if err != nil { Exit(err) }" followed by defer statements: the calls are
\* registered only when the acquisition succeeded
RECURSIVE DeferAll(_, _)
DeferAll(stack, calls) ==
    IF calls = <<>> THEN stack
    ELSE DeferAll(Defer(stack, Head(calls)), Tail(calls))

\* faulty variant: the defer statement placed before the error check
DeferAlways(ok, calls) == DeferAll(defers, calls)

DeferAfter(ok, calls) == IF ok THEN DeferAll(defers, calls) ELSE defers

\* the defer statements of one step
Register(ok, calls) ==
    /\ defers' = DeferAfter(ok, calls)
    /\ registered' = IF ok THEN registered \o calls ELSE registered

\* Exit(err): panic(err); control passes to the deferred calls
Exit(err) ==
    /\ pc' = "unwind"
    /\ panicVal' = err
    /\ firstErr' = IF firstErr = "none" THEN err ELSE firstErr

\* faulty variant: the error of an operation is not looked at
CheckContinue(ok, nextpc, err) ==
    pc' = nextpc /\ UNCHANGED <<panicVal, firstErr>>

\* "if err != nil { Exit(err) }" after an operation of the pipeline
Check(ok, nextpc, err) ==
    IF ok THEN pc' = nextpc /\ UNCHANGED <<panicVal, firstErr>>
    ELSE Exit(err)

----------------------------------------------------------------------------
(* Host operations *)

\* outcomes of running a program: it cannot be launched when it is missing
Outcomes(prog) == IF prog = missing THEN {FALSE} ELSE BOOLEAN

\* outcomes of a call into the os / ioutil / filepath packages
OsOutcomes == BOOLEAN

\* faulty variant: a command run without going through exe.Cmd
RunUnlogged(cmd, args, dir, ok) ==
    /\ exeLog' = exeLog
    /\ ran' = Append(ran, [cmd |-> cmd, args |-> args, dir |-> dir, ok |-> ok])

\* exe.Cmd(cmd, args...) with cmd.Dir = dir, then Run(): the header goes to
\* the log, then the program runs
RunIn(cmd, args, dir, ok) ==
    /\ exeLog' = Append(exeLog, [cmd |-> cmd, args |-> args])
    /\ ran' = Append(ran, [cmd |-> cmd, args |-> args, dir |-> dir, ok |-> ok])

Run(cmd, args, ok) == RunIn(cmd, args, "", ok)

\* a call of the standard library that touches the host, not logged by exe
OsCall(fn, args, ok) ==
    /\ exeLog' = exeLog
    /\ ran' = Append(ran, [cmd |-> fn, args |-> args, dir |-> "", ok |-> ok])

----------------------------------------------------------------------------
(* Initial state: the flags and arguments of one invocation, a host with   *)
(* no loop device, mapping or mount of this run                            *)

\* the flag values and source lists of the invocations with sources of the
\* given kinds; main.go has no -format, -vbox-uuid, -kernel-initrd and
\* -print-fs flags and takes plain source paths
FlagSetsOf(kinds) ==
    [variant : {"format"}, format : Formats, vboxUuid : {"", "uuid-1"},
     initrd : {"", "build/initrd.img"}, printFs : BOOLEAN,
     sources : SeqsUpTo(kinds, MaxSources)]
    \cup
    [variant : {"plain"}, format : {"raw"}, vboxUuid : {""},
     initrd : {""}, printFs : {FALSE},
     sources : SeqsUpTo(kinds \cap {"dir", "file", "nostat"}, MaxSources)]

\* the state at the start of main() for the given sets of flag values
InitFrom(flagSets, printLogs, missingSet) ==
    /\ \E f \in flagSets :
          /\ variant = f.variant
          /\ format = f.format
          /\ vboxUuid = f.vboxUuid
          /\ initrd = f.initrd
          /\ printFs = f.printFs
          /\ sources = f.sources
    /\ printLog \in printLogs
    /\ missing \in missingSet
    /\ preexisting \in BOOLEAN
    /\ finalExists = preexisting
    /\ tmpExists = FALSE
    /\ attached = FALSE
    /\ mapped = FALSE
    /\ mountDir = FALSE
    /\ mounted = FALSE
    /\ cfg = <<>>
    /\ pc = "main"
    /\ srcIdx = 1
    /\ defers = <<>>
    /\ registered = <<>>
    /\ panicVal = "none"
    /\ firstErr = "none"
    /\ exeLog = <<>>
    /\ ran = <<>>
    /\ flushes = 0
    /\ stderr = <<>>
    /\ exitCode = -1

\* invocations without -print-log whose sources are directories, archives
\* or paths that do not exist
Init == InitFrom(FlagSetsOf({"dir", "file", "nostat"}), {FALSE},
                 {"none"} \cup Missable)

----------------------------------------------------------------------------
(* Preflight *)

\* flag.NArg() < 3: usage text and return; else the recover call is deferred
Main ==
    /\ pc = "main"
    /\ IF Len(sources) = 0
       THEN /\ pc' = "done"
            /\ exitCode' = 0
            /\ UNCHANGED <<defers, registered>>
       ELSE /\ pc' = IF variant = "format" THEN "checkOutput" ELSE "checkPrograms"
            /\ exitCode' = exitCode
            /\ Register(TRUE, <<"recover">>)
    /\ UNCHANGED <<inputs, srcIdx, panicVal, firstErr, exeLog, ran,
                   host, flushes, stderr>>

\* faulty variant: the output path is not looked at (as in main.go)
OutputNeverExists == FALSE

\* os.Stat(outfinal) returns no error
OutputExists == finalExists

CheckOutput ==
    /\ pc = "checkOutput"
    /\ IF OutputExists
       THEN Exit("Output file already exists")
       ELSE pc' = "checkFormat" /\ UNCHANGED <<panicVal, firstErr>>
    /\ UNCHANGED <<inputs, srcIdx, defers, registered, exeLog, ran, host,
                   flushes, stderr, exitCode>>

\* the default case of the switch on *format
UnknownFormat == format \notin {"raw"} \cup Converted

CheckFormat ==
    /\ pc = "checkFormat"
    /\ IF UnknownFormat
       THEN Exit("Unknown format")
       ELSE pc' = "checkPrograms" /\ UNCHANGED <<panicVal, firstErr>>
    /\ UNCHANGED <<inputs, srcIdx, defers, registered, exeLog, ran, host,
                   flushes, stderr, exitCode>>

\* exec.LookPath fails for one of the listed programs
ProgramMissing == missing \in programs

CheckPrograms ==
    /\ pc = "checkPrograms"
    /\ IF ProgramMissing
       THEN Exit("Some required programs are missing")
       ELSE pc' = "allocate" /\ UNCHANGED <<panicVal, firstErr>>
    /\ UNCHANGED <<inputs, srcIdx, defers, registered, exeLog, ran, host,
                   flushes, stderr, exitCode>>

----------------------------------------------------------------------------
(* Pipeline stages *)

\* faulty variant: the delete registered only when no rename will consume
\* the temporary file
AllocateDefersConditional ==
    (IF format = "raw" THEN <<>> ELSE <<"rmTmp">>)
    \o (IF format = "vdi" /\ vboxUuid # "" THEN <<"setUuid">> ELSE <<>>)
    \o <<"finalize">>

\* faulty variant: the delete deferred after the rename/conversion, so that
\* it runs first
AllocateDefersDeleteFirst ==
    IF variant = "format"
    THEN (IF format = "vdi" /\ vboxUuid # "" THEN <<"setUuid">> ELSE <<>>)
         \o <<"finalize", "rmTmp">>
    ELSE <<>>

\* the calls deferred once the image file is allocated (lines 185-210);
\* main.go defers nothing here
AllocateDefers ==
    IF variant = "format"
    THEN <<"rmTmp">>
         \o (IF format = "vdi" /\ vboxUuid # "" THEN <<"setUuid">> ELSE <<>>)
         \o <<"finalize">>
    ELSE <<>>

Allocate ==
    /\ pc = "allocate"
    /\ \E ok \in Outcomes("dd") :
          /\ Run("dd", <<"if=/dev/zero", "of=" \o outfile>>, ok)
          /\ Check(ok, "partition", "allocate")
          /\ Register(ok, AllocateDefers)
          /\ IF variant = "format"
             THEN tmpExists' = (tmpExists \/ ok) /\ finalExists' = finalExists
             ELSE finalExists' = (finalExists \/ ok) /\ tmpExists' = tmpExists
    /\ UNCHANGED <<inputs, srcIdx, attached, mapped, mountDir, mounted,
                   cfg, flushes, stderr, exitCode>>

Partition ==
    /\ pc = "partition"
    /\ \E ok \in Outcomes("sfdisk") :
          /\ Run("sfdisk", <<outfile>>, ok)
          /\ Check(ok, "losetup", "partition")
    /\ UNCHANGED <<inputs, srcIdx, defers, registered, host, flushes, stderr, exitCode>>

AttachLoop ==
    /\ pc = "losetup"
    /\ \E ok \in Outcomes("losetup") :
          /\ Run("losetup", <<"--show", "-f", outfile>>, ok)
          /\ Check(ok, "mbr", "losetup")
          /\ Register(ok, <<"losetupDetach">>)
          /\ attached' = (attached \/ ok)
    /\ UNCHANGED <<inputs, srcIdx, tmpExists, finalExists, mapped, mountDir,
                   mounted, cfg, flushes, stderr, exitCode>>

WriteMbr ==
    /\ pc = "mbr"
    /\ \E ok \in Outcomes("dd") :
          /\ Run("dd", <<"if=/usr/lib/extlinux/mbr.bin", "of=" \o device>>, ok)
          /\ Check(ok, "kpartx", "mbr")
    /\ UNCHANGED <<inputs, srcIdx, defers, registered, host, flushes, stderr, exitCode>>

MapPartitions ==
    /\ pc = "kpartx"
    /\ \E ok \in Outcomes("kpartx") :
          /\ Run("kpartx", <<"-a", "-v", device>>, ok)
          /\ Check(ok, "mkfs", "kpartx")
          /\ Register(ok, <<"kpartxDelete">>)
          /\ mapped' = (mapped \/ ok)
    /\ UNCHANGED <<inputs, srcIdx, tmpExists, finalExists, attached, mountDir,
                   mounted, cfg, flushes, stderr, exitCode>>

MakeFilesystem ==
    /\ pc = "mkfs"
    /\ \E ok \in Outcomes("mkfs.ext3") :
          /\ Run("mkfs.ext3", <<partition>>, ok)
          /\ Check(ok, "tempdir", "mkfs")
    /\ UNCHANGED <<inputs, srcIdx, defers, registered, host, flushes, stderr, exitCode>>

\* ioutil.TempDir, then filepath.Abs, then defer os.Remove(mountpoint)
MakeMountpoint ==
    /\ pc = "tempdir"
    /\ \E created \in OsOutcomes, abs \in OsOutcomes :
          /\ ran' = ran \o <<[cmd |-> "ioutil.TempDir", args |-> <<"mksysimage">>,
                                dir |-> "", ok |-> created]>>
                        \o (IF created
                            THEN <<[cmd |-> "filepath.Abs", args |-> <<mountpoint>>,
                                    dir |-> "", ok |-> abs]>>
                            ELSE <<>>)
          /\ exeLog' = exeLog
          /\ mountDir' = (mountDir \/ created)
          /\ IF ~created THEN Exit("tempdir")
             ELSE Check(abs, "mount", "abs")
          /\ Register(created /\ abs, <<"removeMountpoint">>)
    /\ UNCHANGED <<inputs, srcIdx, tmpExists, finalExists, attached, mapped,
                   mounted, cfg, flushes, stderr, exitCode>>

Mount ==
    /\ pc = "mount"
    /\ \E ok \in Outcomes("mount") :
          /\ Run("mount", <<"-o", "loop", "-t", "ext3", partition, mountpoint>>, ok)
          /\ Check(ok, "mkdirBoot", "mount")
          /\ Register(ok, <<"umount">>)
          /\ mounted' = (mounted \/ ok)
    /\ UNCHANGED <<inputs, srcIdx, tmpExists, finalExists, attached, mapped,
                   mountDir, cfg, flushes, stderr, exitCode>>

----------------------------------------------------------------------------
(* Bootloader installation *)

MkdirBoot ==
    /\ pc = "mkdirBoot"
    /\ \E ok \in OsOutcomes :
          /\ OsCall("os.MkdirAll", <<extlinux>>, ok)
          /\ Check(ok, "cpKernel", "mkdirBoot")
    /\ UNCHANGED <<inputs, srcIdx, defers, registered, host, flushes, stderr, exitCode>>

CopyKernel ==
    /\ pc = "cpKernel"
    /\ \E ok \in Outcomes("cp") :
          /\ Run("cp", <<kernel, extlinux>>, ok)
          /\ Check(ok, IF variant = "format" THEN "cpInitrd" ELSE "writeConfig",
                   "cpKernel")
    /\ UNCHANGED <<inputs, srcIdx, defers, registered, host, flushes, stderr, exitCode>>

\* only mksysimage/main.go: the initrd is copied when one was given
CopyInitrd ==
    /\ pc = "cpInitrd"
    /\ IF initrd # ""
       THEN \E ok \in Outcomes("cp") :
               /\ Run("cp", <<initrd, extlinux>>, ok)
               /\ Check(ok, "writeConfig", "cpInitrd")
       ELSE /\ pc' = "writeConfig"
            /\ UNCHANGED <<panicVal, firstErr, exeLog, ran>>
    /\ UNCHANGED <<inputs, srcIdx, defers, registered, host, flushes, stderr, exitCode>>

\* faulty variant: the directive rendered whether or not an initrd was given
initrdcfgAlways == "INITRD " \o Base(initrd)

\* initrdcfg: "INITRD <base name>" when an initrd was given, else empty
initrdcfg == IF initrd # "" THEN "INITRD " \o Base(initrd) ELSE ""

\* fmt.Sprintf(syslinuxConfig, ...), one element per line of the template;
\* the template of main.go has no third parameter
RenderConfig ==
    <<"", "PROMPT 0", "DEFAULT linux", "LABEL linux",
      "    LINUX " \o Base(kernel),
      "    APPEND " \o kernelArgs>>
    \o (IF variant = "format" THEN <<"    " \o initrdcfg>> ELSE <<>>)

\* os.Create and Write of syslinux.cfg
WriteConfig ==
    /\ pc = "writeConfig"
    /\ \E ok \in OsOutcomes :
          /\ OsCall("os.Create", <<extlinux \o "/syslinux.cfg">>, ok)
          /\ Check(ok, "extlinux", "writeConfig")
          /\ cfg' = IF ok THEN RenderConfig ELSE cfg
    /\ UNCHANGED <<inputs, srcIdx, defers, registered, tmpExists, finalExists, attached,
                   mapped, mountDir, mounted, flushes, stderr, exitCode>>

\* mksysimage/main.go installs into the boot directory, main.go into the
\* mount root
InstallExtlinux ==
    /\ pc = "extlinux"
    /\ \E ok \in Outcomes("extlinux") :
          /\ Run("extlinux",
                 <<"--install", IF variant = "format" THEN extlinux ELSE mountpoint>>,
                 ok)
          /\ Check(ok, "populate", "extlinux")
    /\ UNCHANGED <<inputs, srcIdx, defers, registered, host, flushes, stderr, exitCode>>

----------------------------------------------------------------------------
(* Content population: one iteration of the loop over sources *)

\* target root of source i inside the mount
Root(i) == IF variant = "format" THEN mountpoint \o "/" ELSE mountpoint

SourcePath(i) == "/src/" \o ToString(i)

AfterSource == IF srcIdx = Len(sources)
               THEN (IF variant = "format" THEN "printFs" ELSE "return")
               ELSE "populate"

\* faulty variant: the archive is mirrored and the directory extracted
CopyCommandSwapped(i) ==
    IF sources[i] = "dir"
    THEN [cmd |-> "tar", args |-> <<"xvf", SourcePath(i)>>, dir |-> Root(i)]
    ELSE [cmd |-> "rsync", args |-> <<"-RrvP", ".", Root(i)>>, dir |-> SourcePath(i)]

\* the copy command of a source: rsync run in the source directory, or tar
\* run in the target root
CopyCommand(i) ==
    IF sources[i] = "dir"
    THEN [cmd |-> "rsync", args |-> <<"-RrvP", ".", Root(i)>>, dir |-> SourcePath(i)]
    ELSE [cmd |-> "tar", args |-> <<"xvf", SourcePath(i)>>, dir |-> Root(i)]

\* os.MkdirAll(root) of mksysimage/main.go; main.go copies into the mount root
MkdirRoot(i, ok) ==
    IF variant = "format"
    THEN <<[cmd |-> "os.MkdirAll", args |-> <<Root(i)>>, dir |-> "", ok |-> ok]>>
    ELSE <<>>

\* os.Stat(source) after filepath.Abs: it fails for a path that does not exist
Stat(i, ok) ==
    <<[cmd |-> "os.Stat", args |-> <<SourcePath(i)>>, dir |-> "", ok |-> ok]>>

\* faulty variant: a source argument is not validated
SourceErrorNone(kind) == "none"

\* the checks of a root:source argument made before the host is touched
\* (lines 306-318): len(parts) != 2 and !filepath.IsAbs(root); main.go takes
\* plain paths and has neither check
SourceError(kind) ==
    CASE variant = "format" /\ kind = "nocolon" -> "Malformed source"
      [] variant = "format" /\ kind = "relroot" -> "Given source root isn't absolute"
      [] OTHER -> "none"

\* one iteration: the checks, os.MkdirAll(root), os.Stat(source), the copy
\* command; every failure ends in Exit(err)
Populate ==
    /\ pc = "populate"
    /\ srcIdx <= Len(sources)
    /\ LET kind == sources[srcIdx]
           c == CopyCommand(srcIdx)
           e == SourceError(kind)
       IN
       IF e # "none"
       THEN /\ Exit(e)
            /\ UNCHANGED <<srcIdx, exeLog, ran>>
       ELSE \E made \in (IF variant = "format" THEN OsOutcomes ELSE {TRUE}) :
               IF ~made
               THEN /\ ran' = ran \o MkdirRoot(srcIdx, FALSE)
                    /\ Exit("populate.mkdir")
                    /\ UNCHANGED <<srcIdx, exeLog>>
               ELSE IF kind = "nostat"
               THEN /\ ran' = ran \o MkdirRoot(srcIdx, TRUE) \o Stat(srcIdx, FALSE)
                    /\ Exit("populate.stat")
                    /\ UNCHANGED <<srcIdx, exeLog>>
               ELSE \E ok \in Outcomes(c.cmd) :
                    /\ exeLog' = Append(exeLog, [cmd |-> c.cmd, args |-> c.args])
                    /\ ran' = ran \o MkdirRoot(srcIdx, TRUE) \o Stat(srcIdx, TRUE)
                                  \o <<[cmd |-> c.cmd, args |-> c.args,
                                        dir |-> c.dir, ok |-> ok]>>
                    /\ Check(ok, AfterSource, "populate.run")
                    /\ srcIdx' = IF ok THEN srcIdx + 1 ELSE srcIdx
    /\ UNCHANGED <<inputs, defers, registered, host, flushes, stderr, exitCode>>

\* only mksysimage/main.go
PrintFs ==
    /\ pc = "printFs"
    /\ IF printFs
       THEN \E ok \in Outcomes("find") :
               /\ RunIn("find", <<".">>, mountpoint, ok)
               /\ Check(ok, "return", "printFs")
       ELSE /\ pc' = "return"
            /\ UNCHANGED <<panicVal, firstErr, exeLog, ran>>
    /\ UNCHANGED <<inputs, srcIdx, defers, registered, host, flushes, stderr, exitCode>>

\* faulty variant: main ends with os.Exit(0), which skips the deferred calls
ReturnExit ==
    /\ pc = "return"
    /\ pc' = "done"
    /\ exitCode' = 0
    /\ UNCHANGED <<inputs, srcIdx, defers, registered, panicVal, firstErr,
                   exeLog, ran, host, flushes, stderr>>

\* main returns: the deferred calls run
Return ==
    /\ pc = "return"
    /\ pc' = "unwind"
    /\ UNCHANGED <<inputs, srcIdx, defers, registered, panicVal, firstErr, exeLog, ran,
                   host, flushes, stderr, exitCode>>

----------------------------------------------------------------------------
(* Deferred calls, run last-registered-first by the runtime *)

Deferred(call) ==
    /\ pc = "unwind"
    /\ defers # <<>>
    /\ Top(defers) = call
    /\ defers' = Pop(defers)
    /\ registered' = registered

\* faulty variant: a teardown closure that ends the process when it fails
TeardownFatal(ok) ==
    /\ pc' = IF ok THEN pc ELSE "done"
    /\ exitCode' = IF ok THEN exitCode ELSE 1
    /\ UNCHANGED <<panicVal, firstErr>>

\* the teardown closures drop the error of Run() and of os.Remove
IgnoreError(ok) == UNCHANGED <<pc, panicVal, firstErr, exitCode>>

Umount ==
    /\ Deferred("umount")
    /\ \E ok \in Outcomes("umount") :
          /\ Run("umount", <<"-l", mountpoint>>, ok)
          /\ mounted' = (mounted /\ ~ok)
          /\ IgnoreError(ok)
    /\ UNCHANGED <<inputs, srcIdx, tmpExists, finalExists, attached, mapped,
                   mountDir, cfg, flushes, stderr>>

RemoveMountpoint ==
    /\ Deferred("removeMountpoint")
    /\ \E ok \in OsOutcomes :
          /\ OsCall("os.Remove", <<mountpoint>>, ok)
          /\ mountDir' = (mountDir /\ ~ok)
          /\ IgnoreError(ok)
    /\ UNCHANGED <<inputs, srcIdx, tmpExists, finalExists, attached, mapped,
                   mounted, cfg, flushes, stderr>>

KpartxDelete ==
    /\ Deferred("kpartxDelete")
    /\ \E ok \in Outcomes("kpartx") :
          /\ Run("kpartx", <<"-d", device>>, ok)
          /\ mapped' = (mapped /\ ~ok)
          /\ IgnoreError(ok)
    /\ UNCHANGED <<inputs, srcIdx, tmpExists, finalExists, attached, mountDir,
                   mounted, cfg, flushes, stderr>>

LosetupDetach ==
    /\ Deferred("losetupDetach")
    /\ \E ok \in Outcomes("losetup") :
          /\ Run("losetup", <<"-d", device>>, ok)
          /\ attached' = (attached /\ ~ok)
          /\ IgnoreError(ok)
    /\ UNCHANGED <<inputs, srcIdx, tmpExists, finalExists, mapped, mountDir,
                   mounted, cfg, flushes, stderr>>

\* "if err = ...Run(); err != nil { Exit(err) }" inside a deferred call: the
\* panic replaces the one in flight and the remaining deferred calls run
CheckDeferred(ok, err) ==
    IF ok THEN UNCHANGED <<pc, panicVal, firstErr>> ELSE Exit(err)

\* mv and the converter read the temporary file: they fail without it
ReadsTmp(prog) == IF tmpExists THEN Outcomes(prog) ELSE {FALSE}

\* the converter's format argument
FormatArg == "--format=" \o ToUpper(format)

Finalize ==
    /\ Deferred("finalize")
    /\ IF format = "raw"
       THEN \E ok \in ReadsTmp("mv") :
               /\ Run("mv", <<"-f", outfile, outfinal>>, ok)
               /\ tmpExists' = (tmpExists /\ ~ok)
               /\ finalExists' = (finalExists \/ ok)
               /\ CheckDeferred(ok, "finalize")
       ELSE \E ok \in ReadsTmp("vboxmanage") :
               /\ Run("vboxmanage", <<"convertfromraw", outfile, outfinal, FormatArg>>, ok)
               /\ tmpExists' = tmpExists
               /\ finalExists' = (finalExists \/ ok)
               /\ CheckDeferred(ok, "finalize")
    /\ UNCHANGED <<inputs, srcIdx, attached, mapped, mountDir, mounted, cfg,
                   flushes, stderr, exitCode>>

SetUuid ==
    /\ Deferred("setUuid")
    /\ \E ok \in Outcomes("vboxmanage") :
          /\ Run("vboxmanage", <<"internalcommands", "sethduuid", outfinal, vboxUuid>>, ok)
          /\ CheckDeferred(ok, "setUuid")
    /\ UNCHANGED <<inputs, srcIdx, host, flushes, stderr, exitCode>>

RemoveTmp ==
    /\ Deferred("rmTmp")
    /\ \E ok \in Outcomes("rm") :
          /\ Run("rm", <<"-f", outfile>>, ok)
          /\ tmpExists' = (tmpExists /\ ~ok)
          /\ IgnoreError(ok)
    /\ UNCHANGED <<inputs, srcIdx, finalExists, attached, mapped, mountDir,
                   mounted, cfg, flushes, stderr>>

\* exe.PrintLog(): the accumulated log goes to os.Stderr
PrintLog == [kind |-> "log", headers |-> exeLog, err |-> "none"]

\* fmt.Fprintln(os.Stderr, err)
ErrorLine(err) == [kind |-> "error", headers |-> <<>>, err |-> err]

\* faulty variant: the panic is recovered and the process ends normally
RecoverSwallow ==
    /\ Deferred("recover")
    /\ pc' = "done"
    /\ flushes' = IF printLog THEN flushes + 1 ELSE flushes
    /\ stderr' = IF printLog THEN Append(stderr, PrintLog) ELSE stderr
    /\ exitCode' = 0
    /\ UNCHANGED <<inputs, srcIdx, panicVal, firstErr, exeLog, ran, host>>

\* the first deferred call of main: recover(), PrintLog, the error, os.Exit(1);
\* without a panic the log is printed when -print-log was given
Recover ==
    /\ Deferred("recover")
    /\ pc' = "done"
    /\ IF panicVal # "none"
       THEN /\ flushes' = flushes + 1
            /\ stderr' = stderr \o <<PrintLog, ErrorLine(panicVal)>>
            /\ exitCode' = 1
       ELSE /\ flushes' = IF printLog THEN flushes + 1 ELSE flushes
            /\ stderr' = IF printLog THEN Append(stderr, PrintLog) ELSE stderr
            /\ exitCode' = 0
    /\ UNCHANGED <<inputs, srcIdx, panicVal, firstErr, exeLog, ran,
                   host>>

----------------------------------------------------------------------------

Next ==
    \/ Main
    \/ CheckOutput
    \/ CheckFormat
    \/ CheckPrograms
    \/ Allocate
    \/ Partition
    \/ AttachLoop
    \/ WriteMbr
    \/ MapPartitions
    \/ MakeFilesystem
    \/ MakeMountpoint
    \/ Mount
    \/ MkdirBoot
    \/ CopyKernel
    \/ CopyInitrd
    \/ WriteConfig
    \/ InstallExtlinux
    \/ Populate
    \/ PrintFs
    \/ Return
    \/ Umount
    \/ RemoveMountpoint
    \/ KpartxDelete
    \/ LosetupDetach
    \/ Finalize
    \/ SetUuid
    \/ RemoveTmp
    \/ Recover

Spec == Init /\ [][Next]_vars

----------------------------------------------------------------------------
(* Vocabulary of the properties *)

Resources == {"tmpfile", "loop", "mapping", "mountpoint", "mount"}

\* the resource an executed operation tears down, "none" for other operations
TeardownRes(e) ==
    CASE e.cmd = "umount" -> "mount"
      [] e.cmd = "os.Remove" -> "mountpoint"
      [] e.cmd = "kpartx" /\ e.args[1] = "-d" -> "mapping"
      [] e.cmd = "losetup" /\ e.args[1] = "-d" -> "loop"
      [] e.cmd = "rm" -> "tmpfile"
      [] OTHER -> "none"

\* the resource an executed operation tries to acquire; the image file is a
\* temporary file only where it is written to <output>.tmp
AttemptRes(e) ==
    CASE e.cmd = "dd" /\ e.args = <<"if=/dev/zero", "of=out.img.tmp">> -> "tmpfile"
      [] e.cmd = "losetup" /\ e.args[1] = "--show" -> "loop"
      [] e.cmd = "kpartx" /\ e.args[1] = "-a" -> "mapping"
      [] e.cmd = "ioutil.TempDir" -> "mountpoint"
      [] e.cmd = "mount" -> "mount"
      [] OTHER -> "none"

AcquireRes(e) == IF e.ok THEN AttemptRes(e) ELSE "none"

\* the resource a deferred call tears down
CallRes(call) ==
    CASE call = "umount" -> "mount"
      [] call = "removeMountpoint" -> "mountpoint"
      [] call = "kpartxDelete" -> "mapping"
      [] call = "losetupDetach" -> "loop"
      [] call = "rmTmp" -> "tmpfile"
      [] OTHER -> "none"

Some(r) == r # "none"

Reverse(s) == [i \in 1..Len(s) |-> s[Len(s) + 1 - i]]

Count(s, x) == Cardinality({i \in 1..Len(s) : s[i] = x})

IsSuffix(s, t) ==
    /\ Len(s) <= Len(t)
    /\ s = SubSeq(t, Len(t) - Len(s) + 1, Len(t))

\* resources torn down, acquired and registered for teardown, in order
TornDown == SelectSeq([i \in 1..Len(ran) |-> TeardownRes(ran[i])], Some)
Acquired == SelectSeq([i \in 1..Len(ran) |-> AcquireRes(ran[i])], Some)
RegisteredTeardowns ==
    SelectSeq([i \in 1..Len(registered) |-> CallRes(registered[i])], Some)

UnwindOrder ==
    <<"mount", "mountpoint", "mapping", "loop">>
    \o (IF variant = "format" THEN <<"tmpfile">> ELSE <<>>)

IsMv(e) == e.cmd = "mv"
IsConvert(e) == e.cmd = "vboxmanage" /\ e.args[1] = "convertfromraw"
IsSetUuid(e) == e.cmd = "vboxmanage" /\ e.args[1] = "internalcommands"
IsRmTmp(e) == e.cmd = "rm"
IsFinalize(e) == IsMv(e) \/ IsConvert(e)

Moves == SelectSeq(ran, IsMv)
Converts == SelectSeq(ran, IsConvert)

Range(s) == {s[i] : i \in 1..Len(s)}

\* the deferred finalize call has been registered and has run
FinalizeRan == "finalize" \in Range(registered) /\ "finalize" \notin Range(defers)

\* errors raised by the pipeline stages 2 to 11
PipelineStageErrors ==
    {"allocate", "partition", "losetup", "mbr", "kpartx", "mkfs", "tempdir",
     "abs", "mount", "mkdirBoot", "cpKernel", "cpInitrd", "writeConfig",
     "extlinux", "Malformed source", "Given source root isn't absolute",
     "populate.mkdir", "populate.stat", "populate.run", "printFs"}

\* the programs a run with the given flags invokes
RequiredPrograms ==
    programs \cup {"cp"}
    \cup (IF variant = "format" THEN {"rm"} ELSE {})
    \cup (IF variant = "format" /\ format = "raw" THEN {"mv"} ELSE {})
    \cup (IF printFs THEN {"find"} ELSE {})

\* errors raised because the external command of a stage failed
StageCommandErrors ==
    {"allocate", "partition", "losetup", "mbr", "kpartx", "mkfs", "mount",
     "cpKernel", "cpInitrd", "extlinux", "populate.run", "printFs",
     "finalize", "setUuid"}

\* the process has exited after attempting a build (not the usage exit)
BuildEnded == pc = "done" /\ sources # <<>>

----------------------------------------------------------------------------
(* Properties *)

C3_TeardownOnlyAfterAcquire ==
    LET torn == [i \in 1..Len(ran) |-> TeardownRes(ran[i])]
        tried == [i \in 1..Len(ran) |-> AttemptRes(ran[i])]
    IN  \A i \in 1..Len(ran) :
           /\ Some(torn[i])
                 => \E j \in 1..(i - 1) : tried[j] = torn[i] /\ ran[j].ok
           /\ (Some(tried[i]) /\ ~ran[i].ok)
                 => \A k \in 1..Len(ran) : torn[k] # tried[i]

C3_Witness ==
    /\ BuildEnded
    /\ \E i \in 1..Len(ran) : AttemptRes(ran[i]) = "mapping" /\ ~ran[i].ok
    /\ Count(TornDown, "loop") = 1

\* C4: at the end of a successful build the loop device, the partition
\* mapping, the mountpoint directory and the mount have been acquired and the
\* teardown action of every acquired resource has been executed exactly once.
C4_SuccessReleasesAll ==
    (BuildEnded /\ exitCode = 0)
        => LET acquired == Acquired
               torn == TornDown
           IN  /\ \A r \in {"loop", "mapping", "mountpoint", "mount"} :
                     Count(acquired, r) = 1
               /\ \A r \in Resources :
                     Count(acquired, r) > 0 => Count(torn, r) = 1

C4_Witness ==
    /\ BuildEnded
    /\ exitCode = 0
    /\ format = "vdi"
    /\ Len(TornDown) = 5

\* C5: whatever teardown actions fail, every registered teardown action has
\* been executed exactly once, last registered first, when the process exits;
\* in particular a failed umount is followed by the mountpoint removal,
\* kpartx -d, losetup -d and rm -f.
C5_TeardownFailureContinues ==
    BuildEnded
        => LET torn == TornDown
           IN  /\ torn = Reverse(RegisteredTeardowns)
               /\ (\E i \in 1..Len(ran) : ran[i].cmd = "umount" /\ ~ran[i].ok)
                     => torn = UnwindOrder

C5_Witness ==
    /\ BuildEnded
    /\ variant = "format"
    /\ Len(TornDown) = 5
    /\ \A i \in 1..Len(ran) : Some(TeardownRes(ran[i])) => ~ran[i].ok

\* C2: when a pipeline stage fails, neither the rename nor the conversion is
\* invoked, the temporary file is deleted and no file exists at the output
\* path when the process exits.
C2_NoFinalizeOnFailure ==
    (BuildEnded /\ variant = "format" /\ firstErr \in PipelineStageErrors)
        => /\ Moves = <<>>
           /\ Converts = <<>>
           /\ ~tmpExists
           /\ ~finalExists

\* C6: in the format-aware variant a build started while a file exists at
\* the output path runs no command, writes nothing to the execution log,
\* registers and runs no teardown action, and fails.
C6_CollisionFailsEarly ==
    (variant = "format" /\ preexisting /\ sources # <<>>)
        => /\ ran = <<>>
           /\ exeLog = <<>>
           /\ RegisteredTeardowns = <<>>
           /\ pc \in {"main", "checkOutput", "unwind", "done"}
           /\ pc = "done" => exitCode = 1

C6_Witness ==
    /\ BuildEnded
    /\ variant = "format"
    /\ preexisting
    /\ firstErr = "Output file already exists"
    /\ exitCode = 1

\* C7: an unknown output format, or a required program missing from the
\* host, makes the build fail at preflight: no command is executed, nothing
\* is written to the execution log and no teardown action is run.
C7_PreflightRejects ==
    (variant = "format" /\ sources # <<>>
        /\ (UnknownFormat \/ missing \in RequiredPrograms))
        => /\ ran = <<>>
           /\ exeLog = <<>>
           /\ RegisteredTeardowns = <<>>
           /\ pc = "done" => exitCode = 1

\* C8: with format raw the converter is never invoked and the finalize step
\* renames <output>.tmp to <output>; with vdi, vmdk or vhd the finalize step
\* invokes the converter exactly once, from <output>.tmp to <output> with the
\* upper-cased format name, and nothing is renamed.
ExpectedFormatArg ==
    CASE format = "vdi" -> "--format=VDI"
      [] format = "vmdk" -> "--format=VMDK"
      [] format = "vhd" -> "--format=VHD"
      [] OTHER -> "--format=?"

C8_FormatDispatch ==
    variant = "format"
        => LET moves == Moves
               converts == Converts
               finalized == FinalizeRan
           IN  /\ ~finalized => (moves = <<>> /\ converts = <<>>)
               /\ format = "raw"
                     => /\ converts = <<>>
                        /\ finalized
                              => /\ Len(moves) = 1
                                 /\ moves[1].args = <<"-f", "out.img.tmp", "out.img">>
                                 /\ moves[1].ok => (finalExists /\ ~tmpExists)
               /\ format \in Converted
                     => /\ moves = <<>>
                        /\ finalized
                              => /\ Len(converts) = 1
                                 /\ converts[1].args =
                                       <<"convertfromraw", "out.img.tmp", "out.img",
                                         ExpectedFormatArg>>

C8_Witness ==
    /\ BuildEnded
    /\ format = "vmdk"
    /\ Len(Converts) = 1
    /\ Converts[1].ok
    /\ exitCode = 0

\* C9: sethduuid is invoked only for format vdi with an identifier supplied,
\* and only after the conversion has been performed successfully.
C9_StampOnlyAfterConversion ==
    \A i \in 1..Len(ran) :
        IsSetUuid(ran[i])
            => /\ format = "vdi"
               /\ vboxUuid # ""
               /\ \E j \in 1..(i - 1) : IsConvert(ran[j]) /\ ran[j].ok

\* C10 as stated: at the end of every successful build the output file
\* exists and no file remains at <output>.tmp.
C10_NoTmpAfterSuccess ==
    (BuildEnded /\ variant = "format" /\ exitCode = 0)
        => (finalExists /\ ~tmpExists)

\* C10 amended: the delete is registered whenever the allocation succeeded;
\* at the end of every successful build the output file exists and the delete
\* has run once, after the rename or conversion; no file remains at
\* <output>.tmp for raw, nor for a converted format unless rm -f itself
\* failed.
C10_DeleteHarmless ==
    variant = "format"
        => /\ "tmpfile" \in Range(Acquired) => "rmTmp" \in Range(registered)
           /\ (BuildEnded /\ exitCode = 0)
                 => /\ finalExists
                    /\ \E i, j \in 1..Len(ran) :
                          /\ i < j
                          /\ IsMv(ran[i]) \/ IsConvert(ran[i])
                          /\ ran[i].ok
                          /\ IsRmTmp(ran[j])
                          /\ Count(TornDown, "tmpfile") = 1
                          /\ (format = "raw" \/ ran[j].ok) => ~tmpExists

C10_Witness ==
    /\ BuildEnded
    /\ exitCode = 0
    /\ format = "vhd"
    /\ finalExists
    /\ ~tmpExists
    /\ \E j \in 1..Len(ran) : IsRmTmp(ran[j]) /\ ran[j].ok

\* a preflight check rejects the invocation: the output path is taken, the
\* format is unknown or a listed program is missing
PreflightRejected ==
    \/ variant = "format" /\ (preexisting \/ UnknownFormat)
    \/ ProgramMissing

\* an operation of a pipeline stage or of the finalize/stamp step failed
StageFailed ==
    \E i \in 1..Len(ran) : ~ran[i].ok /\ ~Some(TeardownRes(ran[i]))

\* a source argument was rejected by the checks of the populate loop
SourceRejected ==
    firstErr \in {"Malformed source", "Given source root isn't absolute"}

\* C11: the process exits non-zero if and only if a preflight check, an
\* operation of a pipeline stage or the finalize/stamp step failed; a build
\* whose stages all succeeded exits 0 whatever teardown actions failed.
C11_ExitReflectsStagesOnly ==
    BuildEnded
        => /\ exitCode \in {0, 1}
           /\ exitCode # 0
                 <=> (PreflightRejected \/ StageFailed \/ SourceRejected)

C11_Witness ==
    /\ BuildEnded
    /\ exitCode = 0
    /\ variant = "format"
    /\ \E i \in 1..Len(ran) : ran[i].cmd = "umount" /\ ~ran[i].ok
    /\ \E i \in 1..Len(ran) : ran[i].cmd = "os.Remove" /\ ~ran[i].ok
    /\ \E i \in 1..Len(ran) : ran[i].cmd = "rm" /\ ~ran[i].ok

\* the error values printed by the recover call, in order
Surfaced ==
    LET IsError(l) == l.kind = "error"
        lines == SelectSeq(stderr, IsError)
    IN  [i \in 1..Len(lines) |-> lines[i].err]

\* C12: when a pipeline stage fails, the error printed at exit is the error
\* of the first failure of the run; nothing run during the unwind replaces it.
C12_SurfacesFirstError ==
    (BuildEnded /\ firstErr \in PipelineStageErrors)
        => Surfaced = <<firstErr>>

----------------------------------------------------------------------------
(* Source lists: invocations with several source arguments of every kind *)

\* longest list of source arguments of the source-list invocations
MaxOverlay == 2

\* invocations with every program present: raw and vdi images with an
\* identifier, any list of source arguments
InitOverlay ==
    InitFrom([variant : {"format"}, format : {"raw", "vdi"}, vboxUuid : {"uuid-1"},
              initrd : {""}, printFs : {FALSE},
              sources : SeqsUpTo(SourceKinds, MaxOverlay)]
             \cup
             [variant : {"plain"}, format : {"raw"}, vboxUuid : {""},
              initrd : {""}, printFs : {FALSE},
              sources : SeqsUpTo({"dir", "file", "nostat"}, MaxOverlay)],
             {FALSE}, {"none"})

SpecOverlay == InitOverlay /\ [][Next]_vars

\* source argument k cannot be applied
BadSource(k) == sources[k] \in {"nocolon", "relroot", "nostat"}

\* the executed operation is the copy command of source argument j
IsCopyOf(e, j) ==
    /\ e.cmd \in {"rsync", "tar"}
    /\ e.dir = SourcePath(j) \/ SourcePath(j) \in Range(e.args)

Copied(j) == \E i \in 1..Len(ran) : IsCopyOf(ran[i], j) /\ ran[i].ok

\* the populate loop has come to source argument k
ReachedSource(k) ==
    /\ \E i \in 1..Len(ran) : ran[i].cmd = "extlinux" /\ ran[i].ok
    /\ \A j \in 1..(k - 1) : Copied(j)

\* C13: a source argument without ':', with a root that is not absolute or
\* with a path that does not exist stops the build like a stage failure: no
\* copy command is ever run for it or for a later source argument, and once
\* the loop has come to it every teardown action runs, last acquired first,
\* and the process exits non-zero.
C13_BadSourceAborts ==
    \A k \in 1..Len(sources) :
        BadSource(k)
            => /\ \A j \in k..Len(sources), i \in 1..Len(ran) : ~IsCopyOf(ran[i], j)
               /\ (BuildEnded /\ ReachedSource(k))
                     => /\ TornDown = UnwindOrder
                        /\ exitCode = 1

C13_Witness ==
    /\ BuildEnded
    /\ variant = "format"
    /\ Len(sources) = 2
    /\ sources[2] = "relroot"
    /\ Copied(1)
    /\ firstErr = "Given source root isn't absolute"
    /\ TornDown = UnwindOrder
    /\ exitCode = 1

IsCopy(e) == e.cmd \in {"rsync", "tar"}

\* the copy commands executed, in order
Copies == SelectSeq(ran, IsCopy)

\* the target root of every source argument of the model: the mount itself
TargetRoot == IF variant = "format" THEN "/tmp/mksysimage0/" ELSE "/tmp/mksysimage0"

\* the source argument whose content a path written by every source holds:
\* each successful copy command overwrites what the earlier ones put there;
\* 0 while nothing has been copied
RECURSIVE LastWriter(_)
LastWriter(n) ==
    IF n = 0 THEN 0
    ELSE IF Copies[n].ok
         THEN CHOOSE j \in 1..Len(sources) : IsCopyOf(Copies[n], j)
         ELSE LastWriter(n - 1)

\* C14: the i-th copy command executed is that of the i-th source argument,
\* rsync run in the source directory for a directory and tar run in the
\* target root for a regular file; it runs only after the copy commands of
\* all earlier arguments succeeded; so a path written by several sources
\* holds the content of the last of them, and after a successful build that
\* of the last source argument.
C14_SourcesInOrder ==
    LET copies == Copies
    IN  /\ Len(copies) <= Len(sources)
        /\ \A i \in 1..Len(copies) :
              /\ sources[i] = "dir"
                    => /\ copies[i].cmd = "rsync"
                       /\ copies[i].args = <<"-RrvP", ".", TargetRoot>>
                       /\ copies[i].dir = "/src/" \o ToString(i)
              /\ sources[i] # "dir"
                    => /\ copies[i].cmd = "tar"
                       /\ copies[i].args = <<"xvf", "/src/" \o ToString(i)>>
                       /\ copies[i].dir = TargetRoot
              /\ i < Len(copies) => copies[i].ok
        /\ \A i, j \in 1..Len(sources) :
              (i < j /\ Copied(i) /\ Copied(j)) => LastWriter(Len(copies)) >= j
        /\ (BuildEnded /\ exitCode = 0)
              => /\ Len(copies) = Len(sources)
                 /\ LastWriter(Len(copies)) = Len(sources)

C14_Witness ==
    /\ BuildEnded
    /\ exitCode = 0
    /\ variant = "format"
    /\ sources = <<"dir", "file">>
    /\ Len(Copies) = 2
    /\ Copies[1].cmd = "rsync" /\ Copies[2].cmd = "tar"
    /\ LastWriter(2) = 2

----------------------------------------------------------------------------
(* Boot configuration *)

\* lines of a rendered configuration that are no INITRD directive
PlainConfigLines ==
    {"", "PROMPT 0", "DEFAULT linux", "LABEL linux", "    LINUX vmlinuz",
     "    APPEND root=/dev/sda1 ro", "    "}

IsInitrdCopy(e) == e.cmd = "cp" /\ e.args = <<"build/initrd.img", "/tmp/mksysimage0/boot">>
IsKernelCopy(e) == e.cmd = "cp" /\ e.args = <<"build/vmlinuz", "/tmp/mksysimage0/boot">>

\* C15: in the format-aware program the written syslinux.cfg has the LINUX
\* line with the kernel's base name and the APPEND line with the kernel
\* command line; it has the line "INITRD <base name of the initrd>" when an
\* initrd was given and no INITRD line otherwise; the initrd is copied into
\* the boot directory, after the kernel and before the configuration is
\* written, when it was given, and no such copy is made otherwise.
C15_BootConfig ==
    variant = "format"
        => /\ cfg # <<>>
                 => /\ "    LINUX vmlinuz" \in Range(cfg)
                    /\ "    APPEND root=/dev/sda1 ro" \in Range(cfg)
                    /\ initrd # "" <=> "    INITRD initrd.img" \in Range(cfg)
                    /\ initrd = "" => Range(cfg) \subseteq PlainConfigLines
                    /\ initrd # "" => \E i \in 1..Len(ran) : IsInitrdCopy(ran[i]) /\ ran[i].ok
           /\ \A i \in 1..Len(ran) :
                 /\ ran[i].cmd = "cp" => IsKernelCopy(ran[i]) \/ IsInitrdCopy(ran[i])
                 /\ IsInitrdCopy(ran[i])
                       => /\ initrd # ""
                          /\ \E j \in 1..(i - 1) : IsKernelCopy(ran[j]) /\ ran[j].ok
           /\ (initrd # "" /\ pc # "cpInitrd"
                 /\ \E j \in 1..Len(ran) : IsKernelCopy(ran[j]) /\ ran[j].ok)
                 => \E i \in 1..Len(ran) : IsInitrdCopy(ran[i])

C15_Witness ==
    /\ variant = "format"
    /\ initrd = "build/initrd.img"
    /\ cfg = <<"", "PROMPT 0", "DEFAULT linux", "LABEL linux", "    LINUX vmlinuz",
               "    APPEND root=/dev/sda1 ro", "    INITRD initrd.img">>
    /\ BuildEnded
    /\ exitCode = 0

----------------------------------------------------------------------------
(* Order of the pipeline stages *)

\* place of an executed command in the pipeline, 0 for an operation that is
\* no command of a pipeline stage (library calls, teardown, finalize, stamp)
StageRank(e) ==
    LET c == e.cmd
        a == e.args[1]
    IN  CASE c = "dd" -> IF a = "if=/dev/zero" THEN 1 ELSE 4
          [] c = "sfdisk" -> 2
          [] c = "losetup" -> IF a = "--show" THEN 3 ELSE 0
          [] c = "kpartx" -> IF a = "-a" THEN 5 ELSE 0
          [] c = "mkfs.ext3" -> 6
          [] c = "mount" -> 7
          [] c = "cp" -> IF a = "build/vmlinuz" THEN 8 ELSE 9
          [] c = "extlinux" -> 10
          [] IsCopy(e) -> 10 + (CHOOSE j \in 1..Len(sources) : IsCopyOf(e, j))
          [] c = "find" -> 11 + Len(sources)
          [] OTHER -> 0

IsStageCommand(e) == StageRank(e) > 0

\* ranks of the stage commands executed, in order
StageRanks ==
    LET cmds == SelectSeq(ran, IsStageCommand)
    IN  [i \in 1..Len(cmds) |-> StageRank(cmds[i])]

\* ranks of the stage commands of a complete build with the given flags
ExpectedRanks ==
    <<1, 2, 3, 4, 5, 6, 7, 8>>
    \o (IF variant = "format" /\ initrd # "" THEN <<9>> ELSE <<>>)
    \o <<10>>
    \o [j \in 1..Len(sources) |-> 10 + j]
    \o (IF variant = "format" /\ printFs THEN <<11 + Len(sources)>> ELSE <<>>)

IsPrefix(s, t) == Len(s) <= Len(t) /\ s = SubSeq(t, 1, Len(s))

\* a stage command is the operation executed last
JustStaged == ran # <<>> /\ IsStageCommand(ran[Len(ran)])

\* C16: the commands of the pipeline stages are executed in the fixed order
\* dd, sfdisk, losetup, dd of the MBR, kpartx -a, mkfs.ext3, mount, cp of the
\* kernel, cp of the initrd when given, extlinux, the copy command of every
\* source, find when requested, none skipped and none repeated; whenever a
\* stage command has been invoked, every operation before it succeeded and
\* no teardown, finalize or stamp action has run, so none is invoked after
\* the first failure; a successful build has run them all.
C16_StagesInOrder ==
    (JustStaged \/ BuildEnded)
        => LET ranks == [i \in 1..Len(ran) |-> StageRank(ran[i])]
               Ranked(r) == r > 0
               staged == SelectSeq(ranks, Ranked)
           IN  /\ IsPrefix(staged, ExpectedRanks)
               /\ JustStaged
                     => \A i \in 1..(Len(ran) - 1) :
                           /\ ran[i].ok
                           /\ ~Some(TeardownRes(ran[i]))
                           /\ ~IsFinalize(ran[i])
                           /\ ~IsSetUuid(ran[i])
               /\ exitCode = 0 => staged = ExpectedRanks

C16_Witness ==
    /\ BuildEnded
    /\ variant = "format"
    /\ initrd # ""
    /\ printFs
    /\ sources # <<>>
    /\ firstErr = "printFs"
    /\ StageRanks = ExpectedRanks

----------------------------------------------------------------------------
(* Finalize against teardown *)

\* the rename or conversion is the operation executed last
JustFinalized == ran # <<>> /\ IsFinalize(ran[Len(ran)])

\* a teardown command of resource r has failed
TeardownFailed(r) ==
    \E k \in 1..Len(ran) : TeardownRes(ran[k]) = r /\ ~ran[k].ok

\* C17 as stated: when the rename or conversion is invoked the filesystem is
\* no longer mounted, the partition mapping is gone and the loop device is
\* detached; rm -f of the temporary file comes after the rename/conversion.
C17_FinalizeAfterRelease ==
    /\ JustFinalized => (~mounted /\ ~mapped /\ ~attached)
    /\ \A j \in 1..Len(ran) :
          IsRmTmp(ran[j]) => \E i \in 1..(j - 1) : IsFinalize(ran[i])

\* C17 amended: when the rename or conversion is invoked, umount, kpartx -d
\* and losetup -d have been invoked for every one of the three resources
\* acquired in the run, and the backing file is still mounted, mapped or
\* bound to the loop device only if that teardown command itself failed;
\* rm -f of the temporary file comes after the rename/conversion.
C17_FinalizeAfterTeardownAttempts ==
    /\ JustFinalized
          => /\ \A r \in {"mount", "mapping", "loop"} :
                   r \in Range(Acquired) => r \in Range(TornDown)
             /\ mounted => TeardownFailed("mount")
             /\ mapped => TeardownFailed("mapping")
             /\ attached => TeardownFailed("loop")
    /\ \A j \in 1..Len(ran) :
          IsRmTmp(ran[j]) => \E i \in 1..(j - 1) : IsFinalize(ran[i])

C17_Witness ==
    /\ JustFinalized
    /\ ran[Len(ran)].ok
    /\ Acquired = <<"tmpfile", "loop", "mapping", "mountpoint", "mount">>
    /\ TornDown = <<"mount", "mountpoint", "mapping", "loop">>
    /\ ~mounted /\ ~mapped /\ ~attached

----------------------------------------------------------------------------
(* Mountpoint directory *)

\* C18: when ioutil.TempDir has created the mountpoint directory, os.Remove
\* of it has been attempted by the time the process exits, whatever happened
\* afterwards; and os.Remove is never attempted before umount.
C18_MountpointRemoved ==
    /\ BuildEnded
          => \A i \in 1..Len(ran) :
                (ran[i].cmd = "ioutil.TempDir" /\ ran[i].ok)
                    => \E j \in (i + 1)..Len(ran) : ran[j].cmd = "os.Remove"
    /\ \A i, j \in 1..Len(ran) :
          (ran[i].cmd = "os.Remove" /\ ran[j].cmd = "umount") => j < i

----------------------------------------------------------------------------
(* Execution log: invocations with and without -print-log *)

\* invocations with every program present and directory sources, with and
\* without -print-log
InitLog == InitFrom(FlagSetsOf({"dir"}), BOOLEAN, {"none"})

SpecLog == InitLog /\ [][Next]_vars

LibraryCalls ==
    {"ioutil.TempDir", "filepath.Abs", "os.MkdirAll", "os.Create", "os.Stat",
     "os.Remove"}

IsExternal(e) == e.cmd \notin LibraryCalls

\* cmd and args of the external commands executed, in order
Invocations ==
    LET cmds == SelectSeq(ran, IsExternal)
    IN  [i \in 1..Len(cmds) |-> [cmd |-> cmds[i].cmd, args |-> cmds[i].args]]

IsLogDump(l) == l.kind = "log"

\* C19: the log is printed at most once per run, by the last deferred call to
\* run, after every deferred teardown, finalize and stamp action has run; what
\* is printed holds the header of every external command of the run, teardown
\* commands included, in the order of invocation; at the end of a build it
\* has been printed exactly when the build failed or -print-log was given;
\* and a failed build writes the log, then the error, and exits non-zero.
C19_LogFlushedOnceAtEnd ==
    LET dumps == SelectSeq(stderr, IsLogDump)
    IN  /\ flushes <= 1
        /\ Len(dumps) = flushes
        /\ flushes = 1
              => /\ pc = "done"
                 /\ defers = <<>>
                 /\ TornDown = Reverse(RegisteredTeardowns)
                 /\ "finalize" \in Range(registered)
                       => \E i \in 1..Len(ran) : IsFinalize(ran[i])
                 /\ "setUuid" \in Range(registered)
                       => \E i \in 1..Len(ran) : IsSetUuid(ran[i])
                 /\ dumps[1].headers = Invocations
        /\ BuildEnded
              => /\ flushes = 1 <=> (exitCode # 0 \/ printLog)
                 /\ exitCode # 0
                       => /\ Len(stderr) = 2
                          /\ stderr[1].kind = "log"
                          /\ stderr[2].kind = "error"
                          /\ stderr[2].err # "none"
                 /\ exitCode = 0 => Len(stderr) = flushes

C19_Witness ==
    /\ BuildEnded
    /\ exitCode = 1
    /\ ~printLog
    /\ firstErr = "populate.run"
    /\ Len(stderr) = 2
    /\ Len(stderr[1].headers) = Len(exeLog)
    /\ stderr[1].headers[Len(exeLog)].cmd = "rm"
    /\ \E i \in 1..Len(exeLog) : stderr[1].headers[i].cmd = "umount"

====
